---- MODULE Spec2Model ----
(***************************************************************************)
(* Logic evaluation engine of the SynLogic circuit designer                *)
(* (backend/app/logic.py): evaluate_gate, evaluate_circuit with its        *)
(* nested memoizing resolve, and compute_truth_table.                      *)
(*                                                                         *)
(* A gate type is a sequence of one-character strings, so that             *)
(* str.upper() is modelled character by character.  A dict is a function   *)
(* whose domain is its key set.  One activation of the nested resolve is   *)
(* one stack frame; every step of Next runs the code of resolve between    *)
(* two calls or returns.                                                   *)
(***************************************************************************)
EXTENDS Integers, Sequences, FiniteSets, TLC

VARIABLES
    inputs,            \* request: declared input names, in order
    gates,             \* request: sequence of Gate records
    output_gate,       \* request: designated output node id
    call,              \* top-level operation in progress
    input_assignment,  \* the dict passed to evaluate_circuit
    values,            \* evaluate_circuit's local dict (inputs + memo)
    stack,             \* activations of resolve, outermost first
    evals,             \* per gate id: applications of evaluate_gate in this call
    ret,               \* outcome of the current / last evaluate_circuit call
    k,                 \* compute_truth_table: assignments completed so far
    rows,              \* compute_truth_table: its local list of rows
    table,             \* outcome of compute_truth_table
    gate_call          \* arguments and outcome of a direct evaluate_gate call

vars == <<inputs, gates, output_gate, call, input_assignment, values, stack,
          evals, ret, k, rows, table, gate_call>>

----------------------------------------------------------------------------
(* Bounds *)

MaxDepth == 5      \* activations of resolve before the interpreter gives up
MaxLen == 3        \* longest value sequence handed to evaluate_gate directly

----------------------------------------------------------------------------
(* Strings, dicts *)

Range(s) == {s[i] : i \in DOMAIN s}

EmptyDict == [x \in {} |-> 0]

UpperOf == [a |-> "A", b |-> "B", d |-> "D", e |-> "E", f |-> "F", n |-> "N",
            o |-> "O", p |-> "P", r |-> "R", s |-> "S", t |-> "T", u |-> "U",
            x |-> "X"]

UpperChar(c) == IF c \in DOMAIN UpperOf THEN UpperOf[c] ELSE c

\* str.upper()
Upper(s) == [i \in 1..Len(s) |-> UpperChar(s[i])]

AND == <<"A", "N", "D">>
OR == <<"O", "R">>
NOT == <<"N", "O", "T">>
NAND == <<"N", "A", "N", "D">>
NOR == <<"N", "O", "R">>
XOR == <<"X", "O", "R">>
OUTPUT == <<"O", "U", "T", "P", "U", "T">>
BUFFER == <<"B", "U", "F", "F", "E", "R">>

----------------------------------------------------------------------------
(* Outcomes: a returned value or a raised exception *)

NoErr == [msg |-> "", node |-> "", type |-> <<>>]

ErrNotArity == [msg |-> "NOT gate expects a single input", node |-> "", type |-> <<>>]
ErrOutputEmpty == [msg |-> "Output gate requires at least one inbound connection",
                   node |-> "", type |-> <<>>]
ErrUnsupported(t) == [msg |-> "Unsupported gate type", node |-> "", type |-> t]
ErrUnknown(n) == [msg |-> "Unknown gate or input", node |-> n, type |-> <<>>]
ErrNoInputs == [msg |-> "At least one input is required to compute a truth table",
                node |-> "", type |-> <<>>]

\* value is <<v>> when a value was returned, <<>> otherwise
Return(v) == [status |-> "ok", value |-> <<v>>, err |-> NoErr]
Raise(e) == [status |-> "error", value |-> <<>>, err |-> e]
RecursionError == [status |-> "RecursionError", value |-> <<>>, err |-> NoErr]
NotCalled == [status |-> "none", value |-> <<>>, err |-> NoErr]
InProgress == [status |-> "running", value |-> <<>>, err |-> NoErr]

----------------------------------------------------------------------------
(* evaluate_gate *)

int(b) == IF b THEN 1 ELSE 0

all(vs) == \A i \in 1..Len(vs) : vs[i] # 0
any(vs) == \E i \in 1..Len(vs) : vs[i] # 0

RECURSIVE sum(_)
sum(vs) == IF vs = <<>> THEN 0 ELSE vs[1] + sum(Tail(vs))

\* variant: XOR read as "exactly one input is 1"
evaluate_gate_one_hot(gate_type, vs) ==
    LET t == Upper(gate_type) IN
    IF t = AND THEN Return(int(all(vs)))
    ELSE IF t = OR THEN Return(int(any(vs)))
    ELSE IF t = NOT THEN
        IF Len(vs) # 1 THEN Raise(ErrNotArity)
        ELSE Return(int(vs[1] = 0))
    ELSE IF t = NAND THEN Return(int(~all(vs)))
    ELSE IF t = NOR THEN Return(int(~any(vs)))
    ELSE IF t = XOR THEN Return(int(sum(vs) = 1))
    ELSE IF t \in {OUTPUT, BUFFER} THEN
        IF vs = <<>> THEN Raise(ErrOutputEmpty)
        ELSE Return(int(vs[Len(vs)] # 0))
    ELSE Raise(ErrUnsupported(t))

evaluate_gate(gate_type, vs) ==
    LET t == Upper(gate_type) IN
    IF t = AND THEN Return(int(all(vs)))
    ELSE IF t = OR THEN Return(int(any(vs)))
    ELSE IF t = NOT THEN
        IF Len(vs) # 1 THEN Raise(ErrNotArity)
        ELSE Return(int(vs[1] = 0))
    ELSE IF t = NAND THEN Return(int(~all(vs)))
    ELSE IF t = NOR THEN Return(int(~any(vs)))
    ELSE IF t = XOR THEN Return(int(sum(vs) % 2 = 1))
    ELSE IF t \in {OUTPUT, BUFFER} THEN
        IF vs = <<>> THEN Raise(ErrOutputEmpty)
        ELSE Return(int(vs[Len(vs)] # 0))
    ELSE Raise(ErrUnsupported(t))

----------------------------------------------------------------------------
(* evaluate_circuit *)

Gate(id, type, ins) == [id |-> id, type |-> type, inputs |-> ins]

\* values = dict(input_assignment): a fresh dict for every call
SeedValues(assignment) == assignment

\* the caller's dict after the call: dict(...) copied it, so it is untouched
CallerMapping(assignment, vals) == assignment

\* {gate.id: gate for gate in gates}: a later gate replaces an earlier one
gate_lookup(gs) ==
    [id \in {gs[i].id : i \in DOMAIN gs} |->
        gs[CHOOSE i \in DOMAIN gs :
               /\ gs[i].id = id
               /\ \A j \in DOMAIN gs : gs[j].id = id => j <= i]]

\* variant: a gate that is still being resolved is reported as an error
resolve_guarded(node_id, vals, lookup, stk) ==
    IF node_id \in DOMAIN vals THEN
        [kind |-> "return", value |-> <<vals[node_id]>>, err |-> NoErr]
    ELSE IF node_id \notin DOMAIN lookup THEN
        [kind |-> "raise", value |-> <<>>, err |-> ErrUnknown(node_id)]
    ELSE IF \E i \in DOMAIN stk : stk[i].gate.id = node_id THEN
        [kind |-> "raise", value |-> <<>>,
         err |-> [msg |-> "Cyclic dependency", node |-> node_id, type |-> <<>>]]
    ELSE IF Len(stk) >= MaxDepth THEN
        [kind |-> "overflow", value |-> <<>>, err |-> NoErr]
    ELSE [kind |-> "enter", value |-> <<>>, err |-> NoErr]

\* variant: the gate's kind is checked before its inputs are resolved
resolve_kind_first(node_id, vals, lookup, stk) ==
    IF node_id \in DOMAIN vals THEN
        [kind |-> "return", value |-> <<vals[node_id]>>, err |-> NoErr]
    ELSE IF node_id \notin DOMAIN lookup THEN
        [kind |-> "raise", value |-> <<>>, err |-> ErrUnknown(node_id)]
    ELSE IF Upper(lookup[node_id].type) \notin
                {AND, OR, NOT, NAND, NOR, XOR, OUTPUT, BUFFER} THEN
        [kind |-> "raise", value |-> <<>>,
         err |-> ErrUnsupported(Upper(lookup[node_id].type))]
    ELSE IF Len(stk) >= MaxDepth THEN
        [kind |-> "overflow", value |-> <<>>, err |-> NoErr]
    ELSE [kind |-> "enter", value |-> <<>>, err |-> NoErr]

\* Head of resolve: what one activation does with node_id before it looks
\* at the gate's inputs.  stk holds the activations below this one.
resolve(node_id, vals, lookup, stk) ==
    IF node_id \in DOMAIN vals THEN
        [kind |-> "return", value |-> <<vals[node_id]>>, err |-> NoErr]
    ELSE IF node_id \notin DOMAIN lookup THEN
        [kind |-> "raise", value |-> <<>>, err |-> ErrUnknown(node_id)]
    ELSE IF Len(stk) >= MaxDepth THEN
        [kind |-> "overflow", value |-> <<>>, err |-> NoErr]
    ELSE [kind |-> "enter", value |-> <<>>, err |-> NoErr]

\* a new activation working on gate g
Frame(g) == [gate |-> g, resolved |-> <<>>]

\* variant: an AND gate stops at the first input that is 0
ReadyShortCircuit(f) ==
    \/ Len(f.resolved) = Len(f.gate.inputs)
    \/ /\ Upper(f.gate.type) = AND
       /\ IF f.resolved = <<>> THEN FALSE ELSE f.resolved[Len(f.resolved)] = 0

\* the list comprehension over gate.inputs has consumed every reference
ReadyToEvaluate(f) == Len(f.resolved) = Len(f.gate.inputs)

\* variant: the computed value is not memoized
StoreValueDropped(vals, id, v) == vals

\* values[gate.id] = gate_value
StoreValue(vals, id, v) ==
    [n \in DOMAIN vals \cup {id} |-> IF n = id THEN v ELSE vals[n]]

----------------------------------------------------------------------------
(* compute_truth_table *)

\* itertools.product([0, 1], repeat=n), as a sequence of tuples
RECURSIVE Product(_)
Product(n) ==
    IF n = 0 THEN << <<>> >>
    ELSE LET prev == Product(n - 1) IN
         [j \in 1..(2 * Len(prev)) |-> Append(prev[(j + 1) \div 2], (j + 1) % 2)]

\* dict(zip(inputs, assignment)): a repeated key keeps its last value
Zip(names, tuple) ==
    [name \in Range(names) |->
        tuple[CHOOSE i \in DOMAIN names :
                  /\ names[i] = name
                  /\ \A j \in DOMAIN names : names[j] = name => j <= i]]

\* variant: {"output": output_value, **mapping}
RowInputsWin(mapping, output_value) ==
    [key \in DOMAIN mapping \cup {"output"} |->
        IF key \in DOMAIN mapping THEN mapping[key] ELSE output_value]

\* {**mapping, "output": output_value}
Row(mapping, output_value) ==
    [key \in DOMAIN mapping \cup {"output"} |->
        IF key = "output" THEN output_value ELSE mapping[key]]

\* variant: the exception is swallowed and the rows built so far are returned
TablePartial(outcome, local_rows) ==
    [status |-> "ok", rows |-> local_rows, err |-> NoErr]

\* an exception leaves compute_truth_table: its local rows are dropped
TableRaise(outcome, local_rows) ==
    [status |-> outcome.status, rows |-> <<>>, err |-> outcome.err]

TableReturn(local_rows) == [status |-> "ok", rows |-> local_rows, err |-> NoErr]

TableNotCalled == [status |-> "none", rows |-> <<>>, err |-> NoErr]

----------------------------------------------------------------------------
(* Requests *)

All4 == {AND, <<"x", "o", "r">>, NOT, <<"F", "O", "O">>}
Bin == {AND, <<"x", "o", "r">>}

W(id, types, ins) == [id |-> id, types |-> types, inputs |-> ins]

Wirings ==
    { <<>>,
      << W("g1", All4, <<"a", "b">>) >>,
      << W("g1", {NOT, AND}, <<"a">>), W("g2", All4, <<"g1", "b">>) >>,
      << W("g1", {AND, <<"F", "O", "O">>}, <<"x", "a">>) >>,
      << W("g1", {AND, <<"F", "O", "O">>}, <<"a", "x">>) >>,
      << W("g1", {AND, NOT}, <<>>) >>,
      << W("g1", {NOT}, <<"output">>) >>,
      << W("g1", {NOT, <<"F", "O", "O">>}, <<"a">>), W("g2", Bin, <<"g1">>),
         W("g3", Bin, <<"g1", "b">>), W("g4", {AND, <<"F", "O", "O">>}, <<"g2", "g3">>) >>,
      << W("g1", Bin, <<"a", "g2">>), W("g2", Bin, <<"g1">>) >>,
      << W("g1", {AND}, <<"x", "g1">>) >>,
      << W("g1", {AND, <<"F", "O", "O">>}, <<"g1">>) >>,
      << W("a", {NOT}, <<"b">>), W("g1", {AND}, <<"a">>) >>,
      << W("g1", {AND}, <<"a">>), W("g1", {NOT}, <<"b">>) >>,
      << W("g1", {NOT}, <<"a">>), W("g2", {AND}, <<"g2", "g1">>) >> }

Circuits ==
    UNION { { [i \in 1..Len(w) |-> Gate(w[i].id, ty[i], w[i].inputs)] :
                ty \in { f \in [1..Len(w) -> All4] :
                           \A i \in 1..Len(w) : f[i] \in w[i].types } } :
            w \in Wirings }

\* LogicRequest.ensure_unique_inputs: declared names are pairwise distinct
DeclaredInputs ==
    { <<>>, <<"a">>, <<"a", "b">>, <<"b", "a">>, <<"output">>, <<"a", "output">> }

OutputNodes(gs) == {gs[i].id : i \in DOMAIN gs} \cup {"a", "x"}

\* dicts a caller may hand to evaluate_circuit: the declared names, with or
\* without a key that was never declared
Assignments(names) ==
    UNION { [K -> {0, 1}] : K \in {Range(names), Range(names) \cup {"x"}} }

BitSeqs == UNION { [1..n -> {0, 1}] : n \in 0..MaxLen }

\* the lower-case letter of each upper-case letter of the kind names
LowerOf == [A |-> "a", B |-> "b", D |-> "d", E |-> "e", F |-> "f", N |-> "n",
            O |-> "o", P |-> "p", R |-> "r", T |-> "t", U |-> "u", X |-> "x"]

\* kind with the letters at any set of positions in lower case
Casings(kind) ==
    { [i \in 1..Len(kind) |-> IF i \in S THEN LowerOf[kind[i]] ELSE kind[i]] :
      S \in SUBSET (1..Len(kind)) }

KnownKinds == {AND, OR, NOT, NAND, NOR, XOR, OUTPUT, BUFFER}

GateTypes ==
    UNION { Casings(kind) : kind \in KnownKinds }
      \cup { <<>>, <<"F", "O", "O">>, <<"X", "N", "O", "R">>, <<"A", "N">>,
             <<"n", "o", "t", "s">> }

NoGateCall == [gate_type |-> <<>>, values |-> <<>>, result |-> NotCalled]

----------------------------------------------------------------------------
(* The state machine *)

Init ==
    /\ inputs \in DeclaredInputs
    /\ gates \in Circuits
    /\ output_gate \in OutputNodes(gates)
    /\ call = "idle"
    /\ input_assignment = EmptyDict
    /\ values = EmptyDict
    /\ stack = <<>>
    /\ evals = EmptyDict
    /\ ret = NotCalled
    /\ k = 0
    /\ rows = <<>>
    /\ table = TableNotCalled
    /\ gate_call = NoGateCall

NoEvals == [id \in DOMAIN gate_lookup(gates) |-> 0]

Running == call \in {"evaluate_circuit", "compute_truth_table"} /\ ret.status = "running"

\* the innermost activation (or evaluate_circuit itself) is about to call resolve
AtCall == IF stack = <<>> THEN TRUE ELSE ~ReadyToEvaluate(stack[Len(stack)])

\* the node id that call of resolve receives
Pending ==
    IF stack = <<>> THEN output_gate
    ELSE LET f == stack[Len(stack)] IN f.gate.inputs[Len(f.resolved) + 1]

\* an exception leaves evaluate_circuit (and compute_truth_table around it)
RaiseOut(outcome) ==
    /\ ret' = outcome
    /\ IF call = "compute_truth_table"
       THEN /\ table' = TableRaise(outcome, rows)
            /\ call' = "idle"
       ELSE UNCHANGED <<table, call>>
    /\ UNCHANGED <<inputs, gates, output_gate, input_assignment, values, stack,
                   evals, k, rows, gate_call>>

\* resolve returns v to its caller: the activation on top of stk, or
\* evaluate_circuit itself when stk is empty
ReturnValue(v, stk, vals, ev) ==
    IF stk # <<>> THEN
        /\ stack' = [stk EXCEPT ![Len(stk)].resolved = Append(@, v)]
        /\ values' = vals
        /\ evals' = ev
        /\ UNCHANGED <<inputs, gates, output_gate, call, input_assignment, ret,
                       k, rows, table, gate_call>>
    ELSE IF call = "evaluate_circuit" THEN
        /\ ret' = Return(v)
        /\ stack' = <<>>
        /\ values' = vals
        /\ evals' = ev
        /\ UNCHANGED <<inputs, gates, output_gate, call, input_assignment,
                       k, rows, table, gate_call>>
    ELSE
        LET new_rows == Append(rows, Row(CallerMapping(input_assignment, vals), v))
            tuples == Product(Len(inputs))
        IN  /\ rows' = new_rows
            /\ k' = k + 1
            /\ stack' = <<>>
            /\ IF k + 1 = Len(tuples)
               THEN /\ table' = TableReturn(new_rows)
                    /\ call' = "idle"
                    /\ ret' = Return(v)
                    /\ values' = vals
                    /\ evals' = ev
                    /\ UNCHANGED input_assignment
               ELSE /\ input_assignment' = Zip(inputs, tuples[k + 2])
                    /\ values' = SeedValues(input_assignment')
                    /\ evals' = NoEvals
                    /\ ret' = InProgress
                    /\ UNCHANGED <<table, call>>
            /\ UNCHANGED <<inputs, gates, output_gate, gate_call>>

\* a caller invokes evaluate_circuit on its own
CallEvaluateCircuit ==
    /\ call = "idle"
    /\ \E a \in Assignments(inputs) :
        /\ input_assignment' = a
        /\ values' = SeedValues(a)
    /\ call' = "evaluate_circuit"
    /\ stack' = <<>>
    /\ evals' = NoEvals
    /\ ret' = InProgress
    /\ UNCHANGED <<inputs, gates, output_gate, k, rows, table, gate_call>>

\* compute_truth_table up to its first call of evaluate_circuit
CallComputeTruthTable ==
    /\ call = "idle"
    /\ table.status = "none"
    /\ ret.status = "none"
    /\ k' = 0
    /\ rows' = <<>>
    /\ stack' = <<>>
    /\ evals' = NoEvals
    /\ IF inputs = <<>>
       THEN /\ table' = TableRaise(Raise(ErrNoInputs), <<>>)
            /\ UNCHANGED <<call, input_assignment, values, ret>>
       ELSE /\ call' = "compute_truth_table"
            /\ input_assignment' = Zip(inputs, Product(Len(inputs))[1])
            /\ values' = SeedValues(input_assignment')
            /\ ret' = InProgress
            /\ UNCHANGED table
    /\ UNCHANGED <<inputs, gates, output_gate, gate_call>>

\* resolve(node_id) finds node_id in values
ResolveKnown ==
    /\ Running
    /\ AtCall
    /\ LET r == resolve(Pending, values, gate_lookup(gates), stack) IN
        /\ r.kind = "return"
        /\ ReturnValue(r.value[1], stack, values, evals)

\* resolve(node_id) raises: node_id is neither in values nor a gate id
ResolveUnknown ==
    /\ Running
    /\ AtCall
    /\ LET r == resolve(Pending, values, gate_lookup(gates), stack) IN
        /\ r.kind = "raise"
        /\ RaiseOut(Raise(r.err))

\* resolve(node_id) starts on the gate's inputs
ResolveGate ==
    /\ Running
    /\ AtCall
    /\ LET r == resolve(Pending, values, gate_lookup(gates), stack) IN
        /\ r.kind = "enter"
        /\ stack' = Append(stack, Frame(gate_lookup(gates)[Pending]))
        /\ UNCHANGED <<inputs, gates, output_gate, call, input_assignment, values,
                       evals, ret, k, rows, table, gate_call>>

\* the interpreter's recursion limit ends the call
ResolveOverflow ==
    /\ Running
    /\ AtCall
    /\ LET r == resolve(Pending, values, gate_lookup(gates), stack) IN
        /\ r.kind = "overflow"
        /\ RaiseOut(RecursionError)

\* all inputs of the innermost gate are resolved: evaluate_gate, memoize, return
EvaluateGate ==
    /\ Running
    /\ stack # <<>>
    /\ ReadyToEvaluate(stack[Len(stack)])
    /\ LET f == stack[Len(stack)]
           out == evaluate_gate(f.gate.type, f.resolved)
           ev == [evals EXCEPT ![f.gate.id] = @ + 1]
       IN  IF out.status = "ok"
           THEN ReturnValue(out.value[1], SubSeq(stack, 1, Len(stack) - 1),
                            StoreValue(values, f.gate.id, out.value[1]), ev)
           ELSE /\ ret' = out
                /\ evals' = ev
                /\ IF call = "compute_truth_table"
                   THEN /\ table' = TableRaise(out, rows)
                        /\ call' = "idle"
                   ELSE UNCHANGED <<table, call>>
                /\ UNCHANGED <<inputs, gates, output_gate, input_assignment,
                               values, stack, k, rows, gate_call>>

Next ==
    \/ CallEvaluateCircuit
    \/ CallComputeTruthTable
    \/ ResolveKnown
    \/ ResolveUnknown
    \/ ResolveGate
    \/ ResolveOverflow
    \/ EvaluateGate

Spec == Init /\ [][Next]_vars

----------------------------------------------------------------------------
(* evaluate_gate called directly *)

InitGate ==
    /\ inputs = <<>>
    /\ gates = <<>>
    /\ output_gate = ""
    /\ call = "evaluate_gate"
    /\ input_assignment = EmptyDict
    /\ values = EmptyDict
    /\ stack = <<>>
    /\ evals = EmptyDict
    /\ ret = NotCalled
    /\ k = 0
    /\ rows = <<>>
    /\ table = TableNotCalled
    /\ gate_call \in [gate_type : GateTypes, values : BitSeqs, result : {NotCalled}]

CallEvaluateGate ==
    /\ call = "evaluate_gate"
    /\ gate_call.result.status = "none"
    /\ gate_call' = [gate_call EXCEPT
                        !.result = evaluate_gate(gate_call.gate_type, gate_call.values)]
    /\ UNCHANGED <<inputs, gates, output_gate, call, input_assignment, values,
                   stack, evals, ret, k, rows, table>>

NextGate == CallEvaluateGate

SpecGate == InitGate /\ [][NextGate]_vars

----------------------------------------------------------------------------
(* Vocabulary of the properties *)

RECURSIVE Pow2(_)
Pow2(n) == IF n = 0 THEN 1 ELSE 2 * Pow2(n - 1)

\* bit number b (0 = least significant) of the natural number m
Bit(m, b) == (m \div Pow2(b)) % 2

Lookup == gate_lookup(gates)

GateIds == DOMAIN Lookup

\* the ids of the gates that have an activation of resolve on the stack
OnStack == {stack[i].gate.id : i \in DOMAIN stack}

\* some gate has two activations on the stack
Reentered ==
    \E i, j \in DOMAIN stack : i < j /\ stack[i].gate.id = stack[j].gate.id

\* edges of the graph formed by the gates' input references
Refs(id) == Range(Lookup[id].inputs) \cap GateIds

RECURSIVE ReachFrom(_, _)
ReachFrom(frontier, seen) ==
    LET next == UNION {Refs(id) : id \in frontier} \ seen IN
    IF next = {} THEN seen ELSE ReachFrom(next, seen \cup next)

\* the reference graph has a cycle
Cyclic == \E id \in GateIds : id \in ReachFrom({id}, {})

\* s feeds p and q, which both feed the output gate; every one of the four
\* references resolves to the gate (no key of the assignment has that name)
Diamond(s, p, q) ==
    /\ {s, p, q, output_gate} \subseteq GateIds
    /\ {s, p, q, output_gate} \cap DOMAIN input_assignment = {}
    /\ Cardinality({s, p, q, output_gate}) = 4
    /\ {p, q} \subseteq Range(Lookup[output_gate].inputs)
    /\ s \in Range(Lookup[p].inputs) \cap Range(Lookup[q].inputs)

EvaluateCircuitReturned == call = "evaluate_circuit" /\ ret.status = "ok"

----------------------------------------------------------------------------
\* C1: within one evaluate_circuit call evaluate_gate is applied to every
\* gate id at most once, and when the call on a diamond (a shared gate feeding
\* two gates that both feed the output gate) returns, the shared gate has been
\* evaluated exactly once.
C1_EvaluatedAtMostOnce ==
    /\ \A id \in DOMAIN evals : evals[id] <= 1
    /\ EvaluateCircuitReturned =>
          \A s, p, q \in GateIds : (Diamond(s, p, q) /\ ~Cyclic) => evals[s] = 1

C1_Witness ==
    /\ EvaluateCircuitReturned
    /\ ~Cyclic
    /\ \E s, p, q \in GateIds : Diamond(s, p, q) /\ evals[s] = 1 /\ evals[p] = 1
                                  /\ evals[q] = 1 /\ evals[output_gate] = 1

----------------------------------------------------------------------------
\* the 0/1 value the claimed enumeration gives the i-th declared input
\* (i = 1 .. n) in row j (j = 1 .. 2^n): bit n-i of j-1
Expected(j, i) == Bit(j - 1, Len(inputs) - i)

\* the row that belongs to a total assignment over the declared inputs
RowIndex(a) ==
    CHOOSE j \in 1..Pow2(Len(inputs)) :
        \A i \in 1..Len(inputs) : a[inputs[i]] = Expected(j, i)

OneXorGate ==
    /\ inputs = <<"a", "b">>
    /\ Len(gates) = 1
    /\ Upper(gates[1].type) = XOR
    /\ gates[1].inputs = <<"a", "b">>
    /\ output_gate = gates[1].id

\* C2: a table that is returned has exactly 2^n rows and row k gives the i-th
\* declared input bit n-1-i of k (first input most significant); for inputs
\* [a, b] and one XOR gate over [a, b] the outputs are 0, 1, 1, 0.
C2_CountingOrder ==
    table.status = "ok" =>
        /\ Len(table.rows) = Pow2(Len(inputs))
        /\ \A j \in 1..Len(table.rows) : \A i \in 1..Len(inputs) :
              table.rows[j][inputs[i]] = Expected(j, i)
        /\ OneXorGate =>
              [j \in 1..Len(table.rows) |-> table.rows[j]["output"]] = <<0, 1, 1, 0>>

\* C3: when compute_truth_table has returned a table, a stand-alone
\* evaluate_circuit call on a total assignment over the declared inputs
\* returns the `output` field of the row of that assignment.
C3_RoundTrip ==
    (/\ call = "evaluate_circuit"
     /\ ret.status \in {"ok", "error", "RecursionError"}
     /\ table.status = "ok"
     /\ DOMAIN input_assignment = Range(inputs)) =>
        /\ ret.status = "ok"
        /\ ret.value = <<table.rows[RowIndex(input_assignment)]["output"]>>

C3_Witness ==
    /\ EvaluateCircuitReturned
    /\ table.status = "ok"
    /\ DOMAIN input_assignment = Range(inputs)
    /\ output_gate \in GateIds
    /\ Len(Lookup[output_gate].inputs) = 2
    /\ RowIndex(input_assignment) = 2
    /\ ret.value = <<table.rows[2]["output"]>>
    /\ table.rows[1]["output"] # table.rows[2]["output"]

\* C4: a call of resolve on a node id that is neither a declared input name
\* nor a gate id raises the unknown-node error.
C4_UnknownNodeRaises ==
    [][(/\ Running
        /\ AtCall
        /\ Pending \notin Range(inputs)
        /\ Pending \notin GateIds) =>
            ret' = Raise(ErrUnknown(Pending))]_vars

\* C5: every returned row has exactly the declared input names plus `output`
\* as keys, each declared input carrying the value assigned to it in that
\* enumeration step.
C5_RowShape ==
    table.status = "ok" =>
        \A j \in 1..Len(table.rows) :
            /\ DOMAIN table.rows[j] = Range(inputs) \cup {"output"}
            /\ Cardinality(DOMAIN table.rows[j]) = Len(inputs) + 1
            /\ \A i \in 1..Len(inputs) :
                  table.rows[j][inputs[i]] = Product(Len(inputs))[j][i]

\* compute_truth_table has just ended (no later call has started)
TableEnded == call = "idle" /\ table.status # "none"

\* C6: when the resolution of an assignment fails, compute_truth_table fails
\* with that same error and returns no rows; a table is returned only whole.
C6_NoPartialTable ==
    TableEnded =>
        /\ (inputs # <<>> /\ ret.status # "ok") =>
              /\ table.status = ret.status
              /\ table.err = ret.err
              /\ table.rows = <<>>
        /\ table.status = "ok" => Len(table.rows) = Pow2(Len(inputs))
        /\ table.status # "ok" => table.rows = <<>>

C6_Witness ==
    /\ TableEnded
    /\ Len(inputs) = 2
    /\ ret.status = "error"
    /\ table.status = "error"
    /\ table.err = ret.err
    /\ table.err.msg = "NOT gate expects a single input"

----------------------------------------------------------------------------
\* C7 as stated: on a request whose reference graph has a cycle no
\* evaluate_circuit call returns a value or raises an evaluation error.
C7_CycleNeverCompletes ==
    (call # "evaluate_gate" /\ Cyclic) => ret.status \notin {"ok", "error"}

\* resolve is called, or has been entered, for a gate that already has an
\* activation on the stack
CycleHit ==
    /\ Running
    /\ \/ Reentered
       \/ AtCall /\ Pending \notin DOMAIN values /\ Pending \in OnStack

\* C7, amended: once resolve is called for a gate whose own resolution is
\* still in progress, the call never returns a value and never raises an
\* evaluation error; it only recurses, until the interpreter gives up.
C7_ReentryNeverCompletes ==
    [][CycleHit => (ret'.status = "RecursionError" \/ CycleHit')]_vars

C7_Witness ==
    /\ call = "evaluate_circuit"
    /\ ret.status = "RecursionError"
    /\ Reentered
    /\ Len(stack) = MaxDepth
    /\ Cardinality(OnStack) = 2

----------------------------------------------------------------------------
\* Reference semantics of the gate kinds, on sequences of 0/1 values

\* t is kind, letter for letter, in some mix of upper and lower case
SameLetters(t, kind) ==
    /\ Len(t) = Len(kind)
    /\ \A i \in 1..Len(kind) : t[i] \in {kind[i], LowerOf[kind[i]]}

IsKind(t, kinds) == \E kind \in kinds : SameLetters(t, kind)

Ones(vs) == Cardinality({i \in 1..Len(vs) : vs[i] = 1})

Conj(vs) == IF \A i \in 1..Len(vs) : vs[i] = 1 THEN 1 ELSE 0
Disj(vs) == IF \E i \in 1..Len(vs) : vs[i] = 1 THEN 1 ELSE 0

RefFails(t, vs) ==
    \/ ~IsKind(t, KnownKinds)
    \/ IsKind(t, {NOT}) /\ Len(vs) # 1
    \/ IsKind(t, {OUTPUT, BUFFER}) /\ Len(vs) = 0

RefValue(t, vs) ==
    IF IsKind(t, {AND}) THEN Conj(vs)
    ELSE IF IsKind(t, {OR}) THEN Disj(vs)
    ELSE IF IsKind(t, {NAND}) THEN 1 - Conj(vs)
    ELSE IF IsKind(t, {NOR}) THEN 1 - Disj(vs)
    ELSE IF IsKind(t, {XOR}) THEN (IF Ones(vs) % 2 = 1 THEN 1 ELSE 0)
    ELSE IF IsKind(t, {NOT}) THEN 1 - vs[1]
    ELSE vs[Len(vs)]

\* C8: evaluate_gate agrees with the reference semantics for every kind in
\* any letter case, and fails exactly for an unknown kind, a NOT whose
\* sequence has not length 1, and an OUTPUT/BUFFER with an empty sequence.
C8_GateSemantics ==
    gate_call.result.status # "none" =>
        IF RefFails(gate_call.gate_type, gate_call.values)
        THEN gate_call.result.status = "error"
        ELSE gate_call.result = Return(RefValue(gate_call.gate_type, gate_call.values))

C8_Witness ==
    /\ gate_call.gate_type = <<"x", "O", "r">>
    /\ gate_call.values = <<1, 1, 1>>
    /\ gate_call.result = Return(1)

----------------------------------------------------------------------------
UnknownMsg == "Unknown gate or input"

\* the exception in ret left evaluate_circuit with the stack as it stands
Failed == ret.status = "error" /\ call # "evaluate_gate"

Top == stack[Len(stack)]

\* C9: the inputs of a gate are resolved left to right, all of them, before
\* evaluate_gate looks at the gate's kind and arity; an exception is the first
\* failure in that order: an exception of evaluate_gate comes from a gate
\* whose inputs are all resolved, and an unknown-node error names the
\* reference resolve was called for.
C9_ResolutionOrder ==
    /\ \A n \in DOMAIN stack : \A i \in 1..Len(stack[n].resolved) :
          /\ stack[n].gate.inputs[i] \in DOMAIN values
          /\ stack[n].resolved[i] = values[stack[n].gate.inputs[i]]
    /\ \A id \in DOMAIN evals :
          evals[id] >= 1 => Range(Lookup[id].inputs) \subseteq DOMAIN values
    /\ (Failed /\ ret.err.msg # UnknownMsg) =>
          /\ stack # <<>>
          /\ Len(Top.resolved) = Len(Top.gate.inputs)
          /\ evals[Top.gate.id] = 1
          /\ ret = evaluate_gate(Top.gate.type, Top.resolved)
    /\ (Failed /\ ret.err.msg = UnknownMsg) =>
          /\ AtCall
          /\ ret.err.node = Pending
          /\ Pending \notin DOMAIN values \cup GateIds

\* an unsupported gate with a resolved first input and an unknown second one
C9_Witness ==
    /\ Failed
    /\ stack # <<>>
    /\ ~IsKind(Top.gate.type, KnownKinds)
    /\ Len(Top.resolved) = 1
    /\ ret.err = ErrUnknown(Top.gate.inputs[2])

----------------------------------------------------------------------------
\* What a resolution does as far as the key set of the values dict goes:
\* the 0/1 values are not looked at.

KindError(type, arity) ==
    IF ~IsKind(type, KnownKinds) THEN ErrUnsupported(Upper(type))
    ELSE IF IsKind(type, {NOT}) /\ arity # 1 THEN ErrNotArity
    ELSE IF IsKind(type, {OUTPUT, BUFFER}) /\ arity = 0 THEN ErrOutputEmpty
    ELSE NoErr

RECURSIVE Predict(_, _, _)
RECURSIVE PredictAll(_, _, _)

\* resolve(node) with the keys `known` in the dict, at most `fuel` gates deep
Predict(node, known, fuel) ==
    IF node \in known THEN [known |-> known, err |-> NoErr]
    ELSE IF node \notin GateIds THEN [known |-> known, err |-> ErrUnknown(node)]
    ELSE IF fuel = 0 THEN [known |-> known, err |-> ErrUnknown("")]
    ELSE LET r == PredictAll(Lookup[node].inputs, known, fuel - 1)
             e == KindError(Lookup[node].type, Len(Lookup[node].inputs))
         IN  IF r.err # NoErr THEN r
             ELSE IF e # NoErr THEN [known |-> r.known, err |-> e]
             ELSE [known |-> r.known \cup {node}, err |-> NoErr]

PredictAll(refs, known, fuel) ==
    IF refs = <<>> THEN [known |-> known, err |-> NoErr]
    ELSE LET r == Predict(Head(refs), known, fuel) IN
         IF r.err # NoErr THEN r ELSE PredictAll(Tail(refs), r.known, fuel)

\* C10: whether evaluate_circuit fails, and with which error, is fixed by the
\* gates, the output node and the key set of the assignment, not by the 0/1
\* values; compute_truth_table therefore fails on its first row or not at all.
C10_FailureIgnoresValues ==
    /\ (call # "evaluate_gate" /\ ret.status \in {"ok", "error"}) =>
          ret.err = Predict(output_gate, DOMAIN input_assignment, Len(gates) + 1).err
    /\ (table.status \notin {"none", "ok"} /\ inputs # <<>>) =>
          /\ k = 0
          /\ rows = <<>>

\* the table failed on its first row and a later stand-alone call, on an
\* assignment that is not all zero, fails with the same error
C10_Witness ==
    /\ call = "evaluate_circuit"
    /\ ret.status = "error"
    /\ table.status = "error"
    /\ ret.err = table.err
    /\ DOMAIN input_assignment = Range(inputs)
    /\ \A key \in DOMAIN input_assignment : input_assignment[key] = 1
    /\ Len(inputs) = 2
    /\ ~Cyclic

====
